---- MODULE Spec2Model ----
(***************************************************************************)
(* Model of the vision-based monitoring engine of cert_me_boi:             *)
(*   src/src/monitor/video_monitor.py   (VideoMonitor)                     *)
(*   src/src/monitor/screen_monitor.py  (ScreenMonitor)                    *)
(*   src/src/utils/error_handler.py     (the decorators)                   *)
(*   src/src/utils/log_rotation.py      (LogRotationManager)               *)
(*   src/src/utils/metrics_collector.py (MetricsCollector)                 *)
(*                                                                         *)
(* A BGR frame is a one-row image: a sequence of pixels <<b, g, r>>.  A    *)
(* grayscale frame is a sequence of integers in 0..255.  The shape of a    *)
(* frame is its length.  Fractions (variances, means, progress) are kept   *)
(* as pairs <<numerator, denominator>> so that no rounding is introduced.  *)
(* For detect_progress_bar a frame is represented by its width and by the  *)
(* contours cv2.findContours reports for the track ("white") and the fill  *)
(* ("gray") mask of its region of interest.  For match_template a frame is *)
(* represented by what cv2.matchTemplate and cv2.minMaxLoc report for it,  *)
(* per template image and per scale; correlation scores are in hundredths. *)
(***************************************************************************)
EXTENDS Integers, Sequences, FiniteSets, TLC

VARIABLES
    frame_buffer,      \* VideoMonitor.frame_buffer: list of grayscale frames
    screenshot_count,  \* VideoMonitor.screenshot_count
    motion_threshold,  \* VideoMonitor.motion_threshold (configuration)
    blur_threshold,    \* VideoMonitor.blur_threshold (configuration)
    disk,              \* files under screenshot_dir: name -> stored image
    last,              \* the most recent call on the monitor and its outcome
    arg,               \* the frame handed to detect_progress_bar
    analysed,          \* how many frames analyze_frame has put in the buffer
    pc,                \* monitor_regions: the statement about to run
    region_index,      \* monitor_regions: position of the for loop in regions
    previous_frames,   \* monitor_regions: region name -> frame stored for it
    current_frame,     \* monitor_regions: the frame captured for the region
    change,            \* monitor_regions: change_detected for the region
    callback,          \* monitor_regions: whether a callback was supplied
    calls,             \* the callback invocations of the current tick
    sct_open,          \* ScreenMonitor.sct has not been closed
    sct_closes,        \* how often self.sct.close() has run
    exit_by,           \* monitor_regions: the exception that ended the loop
    template_files,    \* the template image files on disk, by template name
    match_threshold,   \* template_matching.threshold of the configuration
    screen_monitor,    \* how far ScreenMonitor.__init__ has got
    templates,         \* ScreenMonitor.templates: name -> cached image
    wrapper,           \* one call of a function wrapped by a decorator
    rotation,          \* a LogRotationManager, its threads and its caller
    metrics            \* a MetricsCollector, its threads and its caller

vmvars == <<frame_buffer, screenshot_count, motion_threshold, blur_threshold,
            disk, last, arg, analysed>>

smvars == <<pc, region_index, previous_frames, current_frame, change,
            callback, calls, sct_open, sct_closes, exit_by>>

tmvars == <<template_files, match_threshold, screen_monitor, templates>>

utvars == <<wrapper, rotation, metrics>>

vars == <<vmvars, smvars, tmvars, utvars>>

-----------------------------------------------------------------------------
(* Bounds of the model and configuration values *)

\* frame_analysis.buffer_size of the configuration
buffer_size == 2

\* screenshots.max_per_session of the configuration
max_screenshots == 2

\* the number of frames analysed in one run of the model
MaxAnalysed == 3

\* widths (in pixels) of the one-row frames given to the monitor
Shapes == {1, 2}

Black == <<0, 0, 0>>
White == <<255, 255, 255>>
Pixels == {Black, White}

\* the motion thresholds a configuration may carry
MotionThresholds == {-1, 100}

\* the blur thresholds a configuration may carry (100 is the default;
\* 260100 is the Laplacian variance of a black/white two-pixel frame)
BlurThresholds == {100, 260100}

\* screenshot names given to save_frame
Names == {"a", "b"}

\* monitor.regions of the configuration, by name
Regions == <<"video_player", "progress_bar">>

\* the images a capture of a region may return: three of the region's
\* shape, and one of another shape
ScreenFrames == {<<0, 0>>, <<0, 10>>, <<0, 12>>, <<0>>}

\* the change threshold of monitor_regions: np.mean(diff) > 5.0
ChangeThreshold == 5

\* size of the frames given to detect_progress_bar
FrameWidth == 10
FrameHeight == 50

\* progress_bar.roi.top_percent and height_percent (0.8 and 0.1), in tenths
RoiTopTenths == 8
RoiHeightTenths == 1

\* progress_bar.min_width_percent (0.3), in tenths
MinWidthTenths == 3

\* progress_bar.min_height_pixels
MinHeightPixels == 5

\* the most contours one mask of the region of interest has
MaxContours == 2

\* bounding-box widths and heights of the contours found in the masks
ContourWidths == {2, 3, 5}
ContourHeights == {4, 5}

\* template_matching.scale_steps: the number of scales match_template tries
ScaleSteps == 3

\* template names of the configuration
TemplateNames == {"play_button", "next_button"}

\* the images a template file may hold
Images == {"img1", "img2"}

\* what is found at a template's path: no file, a file cv2.imread cannot
\* decode, or an image
FileStates == {"missing", "corrupt"} \cup Images

\* max_val of cv2.minMaxLoc on a TM_CCOEFF_NORMED result, in hundredths
Scores == {-50, 80, 100}

\* max_loc of cv2.minMaxLoc
Locations == {<<0, 0>>, <<3, 0>>}

\* the template_matching.threshold values a configuration may carry, in
\* hundredths (80 is the default)
MatchThresholds == {-60, 80}

\* the largest max_attempts given to retry_on_error
MaxAttempts == 3

\* the most threads one manager or collector starts in a run of the model
MaxThreads == 3

\* the exception classes a wrapped function raises
Exceptions == {"ValueError", "TypeError", "AutomationError", "MonitorError"}

\* what one invocation of a wrapped function does: it returns ("ok") or
\* raises an exception of the given class
Outcomes == {"ok"} \cup Exceptions

-----------------------------------------------------------------------------
(* Frames *)

RECURSIVE SeqsOfLen(_, _)
SeqsOfLen(S, n) ==
    IF n = 0 THEN {<<>>}
    ELSE {Append(s, x) : s \in SeqsOfLen(S, n - 1), x \in S}

\* what a caller may pass as "frame": None, an object that is no ndarray,
\* or a BGR image
NoneFrame == [kind |-> "None", px |-> <<>>]
NotArray == [kind |-> "object", px |-> <<>>]
BGRFrames == {[kind |-> "ndarray", px |-> p] :
                 p \in UNION {SeqsOfLen(Pixels, n) : n \in Shapes}}
FrameArgs == {NoneFrame, NotArray} \cup BGRFrames

\* a frame test that only rejects None
InvalidFrameNoneOnly(frame) == frame.kind = "None"

\* frame is None or not isinstance(frame, np.ndarray)
InvalidFrame(frame) == frame.kind # "ndarray"

\* cv2.cvtColor(frame, cv2.COLOR_BGR2GRAY) on 8-bit pixels: fixed-point
\* weights B 3735, G 19235, R 9798 over 2^15, rounded
GrayPixel(p) == (p[1] * 3735 + p[2] * 19235 + p[3] * 9798 + 16384) \div 32768

cvtColor(px) == [i \in 1..Len(px) |-> GrayPixel(px[i])]

Abs(x) == IF x < 0 THEN -x ELSE x

RECURSIVE SumSeq(_)
SumSeq(s) == IF s = <<>> THEN 0 ELSE s[1] + SumSeq(Tail(s))

\* np.sum(cv2.absdiff(a, b)) for two grayscale frames of the same shape
AbsDiffSum(a, b) == SumSeq([i \in 1..Len(a) |-> Abs(a[i] - b[i])])

\* cv2.Laplacian(gray, cv2.CV_64F) on a one-row image, 3x3 aperture
\* [0 1 0; 1 -4 1; 0 1 0], border reflected without repeating the edge
\* pixel (the rows above and below reflect onto the row itself)
Reflect(i, n) == IF n = 1 THEN 1 ELSE IF i < 1 THEN 2 ELSE IF i > n THEN n - 1 ELSE i

Laplacian(gray) ==
    [i \in 1..Len(gray) |->
        gray[Reflect(i - 1, Len(gray))] + gray[Reflect(i + 1, Len(gray))]
            - 2 * gray[i]]

\* numpy's .var() of a sequence, as <<numerator, denominator>>
Variance(s) ==
    <<Len(s) * SumSeq([i \in 1..Len(s) |-> s[i] * s[i]]) - SumSeq(s) * SumSeq(s),
      Len(s) * Len(s)>>

\* np.mean of a sequence, as <<numerator, denominator>>
Mean(s) == <<SumSeq(s), Len(s)>>

\* q > n for a fraction q = <<numerator, denominator>> and an integer n
FracGreater(q, n) == q[1] > n * q[2]

-----------------------------------------------------------------------------
(* VideoMonitor *)

\* match_template returning None
NoMatch == [found |-> FALSE, x |-> 0, y |-> 0, confidence |-> 0]

\* the outcome of a call: err is "" when the call returned
NoCall ==
    [op |-> "none", frame |-> NoneFrame, name |-> "", err |-> "",
     motion |-> FALSE, blur |-> <<0, 1>>, brightness |-> <<0, 1>>,
     contrast2 |-> <<0, 1>>, playing |-> FALSE, path |-> <<>>,
     progress |-> [found |-> FALSE, num |-> 0, den |-> 1],
     template |-> "", match |-> NoMatch]

\* VideoMonitor._detect_motion on the buffer as it is when called
DetectMotion(buffer, current, threshold) ==
    IF Len(buffer) < 1
    THEN [err |-> "", val |-> FALSE]
    ELSE LET prev_frame == buffer[Len(buffer)]
         IN  IF Len(prev_frame) # Len(current)
             THEN [err |-> "cv2.error", val |-> FALSE]
             ELSE [err |-> "",
                   val |-> AbsDiffSum(current, prev_frame) > threshold]

\* VideoMonitor._calculate_blur
CalculateBlur(px) == Variance(Laplacian(cvtColor(px)))

\* a buffer update that puts the new frame in front of the older ones
PushFrameFront(buffer, gray) ==
    <<gray>> \o (IF Len(buffer) >= buffer_size
                 THEN SubSeq(buffer, 1, Len(buffer) - 1) ELSE buffer)

\* PushFrame without the eviction of the oldest entry
PushFrameNoEvict(buffer, gray) == Append(buffer, gray)

\* the frame buffer after the update at the head of analyze_frame
PushFrame(buffer, gray) ==
    Append(IF Len(buffer) >= buffer_size THEN Tail(buffer) ELSE buffer, gray)

\* error_handler.safe_monitor_operation: OpenCV errors become MonitorError,
\* everything else passes through
SafeMonitorOperation(err) == IF err = "cv2.error" THEN "MonitorError" ELSE err

\* VideoMonitor.analyze_frame (body and decorator): the error raised, the
\* frame buffer on exit, and the metrics returned
AnalyzeFrame(buffer, frame, threshold) ==
    IF InvalidFrame(frame)
    THEN [err |-> "MonitorError", buffer |-> buffer, motion |-> FALSE,
          blur |-> <<0, 1>>, brightness |-> <<0, 1>>, contrast2 |-> <<0, 1>>]
    ELSE LET gray == cvtColor(frame.px)
             pushed == PushFrame(buffer, gray)
             m == DetectMotion(pushed, gray, threshold)
         IN  IF m.err # ""
             THEN [err |-> SafeMonitorOperation(m.err), buffer |-> pushed,
                   motion |-> FALSE, blur |-> <<0, 1>>,
                   brightness |-> <<0, 1>>, contrast2 |-> <<0, 1>>]
             ELSE [err |-> "", buffer |-> pushed, motion |-> m.val,
                   blur |-> CalculateBlur(frame.px),
                   brightness |-> Mean(gray), contrast2 |-> Variance(gray)]

\* IsPlaying with "or" in place of "and"
IsPlayingOr(motion_detected, blur_score, threshold) ==
    motion_detected \/ FracGreater(blur_score, threshold)

\* is_playing = motion_detected and blur_score > self.blur_threshold
IsPlaying(motion_detected, blur_score, threshold) ==
    motion_detected /\ FracGreater(blur_score, threshold)

\* one more frame has gone into the buffer
Count(frame) ==
    /\ InvalidFrame(frame) \/ analysed < MaxAnalysed
    /\ analysed' = IF InvalidFrame(frame) THEN analysed ELSE analysed + 1

analyze_frame(frame) ==
    LET r == AnalyzeFrame(frame_buffer, frame, motion_threshold)
    IN  /\ Count(frame)
        /\ frame_buffer' = r.buffer
        /\ last' = [NoCall EXCEPT !.op = "analyze_frame", !.frame = frame,
                                  !.err = r.err, !.motion = r.motion,
                                  !.blur = r.blur,
                                  !.brightness = r.brightness,
                                  !.contrast2 = r.contrast2]
        /\ UNCHANGED <<screenshot_count, motion_threshold, blur_threshold, disk,
                       arg>>

verify_video_playing(frame) ==
    IF InvalidFrame(frame)
    THEN /\ Count(frame)
         /\ last' = [NoCall EXCEPT !.op = "verify_video_playing",
                                   !.frame = frame, !.err = "MonitorError"]
         /\ UNCHANGED <<frame_buffer, screenshot_count, motion_threshold,
                        blur_threshold, disk, arg>>
    ELSE LET r == AnalyzeFrame(frame_buffer, frame, motion_threshold)
         IN  /\ Count(frame)
             /\ frame_buffer' = r.buffer
             /\ last' = [NoCall EXCEPT
                            !.op = "verify_video_playing", !.frame = frame,
                            !.err = SafeMonitorOperation(r.err),
                            !.motion = r.motion, !.blur = r.blur,
                            !.brightness = r.brightness,
                            !.contrast2 = r.contrast2,
                            !.playing = IF r.err = ""
                                        THEN IsPlaying(r.motion, r.blur,
                                                       blur_threshold)
                                        ELSE FALSE]
             /\ UNCHANGED <<screenshot_count, motion_threshold,
                            blur_threshold, disk, arg>>

\* str(self.screenshot_dir / f"{name}.png"); <<>> stands for None
ScreenshotDir == "data/screenshots"
PathOf(name) == <<ScreenshotDir, name, "png">>
NoPath == <<>>

\* the quota test with > in place of >=
QuotaReachedLate(count) == count > max_screenshots

\* the quota test one screenshot early
QuotaReachedEarly(count) == count + 1 >= max_screenshots

\* the quota test of save_frame
QuotaReached(count) == count >= max_screenshots

\* cv2.imwrite(path, frame, [IMWRITE_PNG_COMPRESSION, ...]): PNG keeps every
\* pixel; the write may fail (it then returns False and stores nothing)
imwrite(files, name, px, ok) == IF ok THEN [files EXCEPT ![name] = px] ELSE files

\* a counter that starts again from zero once the quota is filled
IncrementOrReset(count) ==
    IF count + 1 >= max_screenshots THEN 0 ELSE count + 1

\* self.screenshot_count += 1
Increment(count) == count + 1

\* VideoMonitor.save_frame; write_ok is whether the file system accepts the
\* write
save_frame(frame, name, write_ok) ==
    IF InvalidFrame(frame)
    THEN /\ last' = [NoCall EXCEPT !.op = "save_frame", !.frame = frame,
                                   !.name = name, !.err = "MonitorError"]
         /\ UNCHANGED <<frame_buffer, screenshot_count, motion_threshold,
                        blur_threshold, disk, arg, analysed>>
    ELSE IF QuotaReached(screenshot_count)
    THEN /\ last' = [NoCall EXCEPT !.op = "save_frame", !.frame = frame,
                                   !.name = name, !.path = NoPath]
         /\ UNCHANGED <<frame_buffer, screenshot_count, motion_threshold,
                        blur_threshold, disk, arg, analysed>>
    ELSE /\ disk' = imwrite(disk, name, frame.px, write_ok)
         /\ screenshot_count' = Increment(screenshot_count)
         /\ last' = [NoCall EXCEPT !.op = "save_frame", !.frame = frame,
                                   !.name = name, !.path = PathOf(name)]
         /\ UNCHANGED <<frame_buffer, motion_threshold, blur_threshold, arg,
                        analysed>>

-----------------------------------------------------------------------------
(* VideoMonitor.detect_progress_bar *)

RECURSIVE SeqsUpTo(_, _)
SeqsUpTo(S, n) == IF n = 0 THEN {<<>>} ELSE SeqsOfLen(S, n) \cup SeqsUpTo(S, n - 1)

\* int(height * top_percent), int(height * height_percent)
RoiTop(height) == (height * RoiTopTenths) \div 10
RoiHeight(height) == (height * RoiHeightTenths) \div 10

\* a contour of a mask: the width and height of cv2.boundingRect and
\* cv2.contourArea (of a filled rectangle: the polygon through the centres
\* of its border pixels)
Contour(w, h) == [w |-> w, h |-> h, area |-> (w - 1) * (h - 1)]

WhiteContours ==
    {Contour(w, h) : w \in {x \in ContourWidths : x <= FrameWidth},
                     h \in {y \in ContourHeights : y <= RoiHeight(FrameHeight)}}
GrayContours ==
    {Contour(w, RoiHeight(FrameHeight)) :
        w \in {x \in ContourWidths : x <= FrameWidth}}

\* the frames given to detect_progress_bar
ProgressArgs ==
    {[kind |-> k, px |-> <<>>, width |-> 0, height |-> 0,
      white |-> <<>>, gray |-> <<>>] : k \in {"None", "object"}}
    \cup {[kind |-> "ndarray", px |-> <<>>, width |-> FrameWidth,
           height |-> FrameHeight, white |-> wc, gray |-> gc] :
             wc \in SeqsUpTo(WhiteContours, MaxContours),
             gc \in SeqsUpTo(GrayContours, MaxContours)}

\* max(contours, key=cv2.contourArea): the first contour of greatest area
RECURSIVE MaxByArea(_)
MaxByArea(contours) ==
    IF Len(contours) = 1 THEN contours[1]
    ELSE LET rest == MaxByArea(Tail(contours))
         IN  IF rest.area > contours[1].area THEN rest ELSE contours[1]

\* a validation that rejects a track only when it is both narrow and short
TooSmallBoth(w, h, width) ==
    10 * w < width * MinWidthTenths /\ h < MinHeightPixels

\* w < min_width or h < min_height, min_width = width * min_width_percent
TooSmall(w, h, width) == 10 * w < width * MinWidthTenths \/ h < MinHeightPixels

NotFound == [found |-> FALSE, num |-> 0, den |-> 1]

\* progress = gray_w / w
Progress(gray_w, w) == [found |-> TRUE, num |-> gray_w, den |-> w]

\* VideoMonitor.detect_progress_bar: the error raised and the value returned
DetectProgressBar(frame) ==
    IF InvalidFrame(frame)
    THEN [err |-> "MonitorError", progress |-> NotFound]
    ELSE IF frame.white = <<>>
    THEN [err |-> "", progress |-> NotFound]
    ELSE LET white_contour == MaxByArea(frame.white)
         IN  IF TooSmall(white_contour.w, white_contour.h, frame.width)
             THEN [err |-> "", progress |-> NotFound]
             ELSE IF frame.gray = <<>>
             THEN [err |-> "", progress |-> [found |-> TRUE, num |-> 0,
                                             den |-> 1]]
             ELSE [err |-> "",
                   progress |-> Progress(MaxByArea(frame.gray).w,
                                         white_contour.w)]

detect_progress_bar(frame) ==
    LET r == DetectProgressBar(frame)
    IN  /\ last' = [NoCall EXCEPT !.op = "detect_progress_bar",
                                  !.frame = frame, !.err = r.err,
                                  !.progress = r.progress]
        /\ UNCHANGED <<frame_buffer, screenshot_count, motion_threshold,
                       blur_threshold, disk, arg, analysed>>

-----------------------------------------------------------------------------
(* VideoMonitor.match_template and the template files *)

\* what one pass of the scale loop computes: cv2.resize or cv2.matchTemplate
\* raises cv2.error (the scaled template is empty or larger than the frame),
\* or cv2.minMaxLoc reports max_val and max_loc
Cv2Error == [err |-> TRUE, val |-> 0, loc |-> <<0, 0>>]
ScaleResults ==
    {[err |-> FALSE, val |-> v, loc |-> l] : v \in Scores, l \in Locations}
    \cup {Cv2Error}

\* the passes over a frame that does not contain the template
Uncorrelated ==
    [i \in 1..ScaleSteps |-> [err |-> FALSE, val |-> 0, loc |-> <<0, 0>>]]

\* a frame showing image img, with the given results for that image at the
\* ascending scales np.linspace(scale_range[0], scale_range[1], scale_steps)
FrameShowing(img, results) ==
    [kind |-> "ndarray", px |-> <<>>,
     corr |-> [i \in Images |-> IF i = img THEN results ELSE Uncorrelated]]

\* the frames given to match_template
MatchFrames ==
    {FrameShowing(img, rs) :
        img \in Images, rs \in SeqsOfLen(ScaleResults, ScaleSteps)}
MatchArgs == {NoneFrame, NotArray} \cup MatchFrames

\* frames showing a template image at full confidence at every scale
ProbeFrames ==
    {FrameShowing(img, [i \in 1..ScaleSteps |->
                           [err |-> FALSE, val |-> 100, loc |-> <<3, 0>>]]) :
        img \in Images}

\* cv2.matchTemplate and cv2.minMaxLoc for the template at the i-th scale
\* (at scale 1.0 the unresized template gives what a resize to its own size
\* would give)
matchTemplate(frame, template, i) == frame.corr[template][i]

\* a best-so-far test that lets a later scale of equal confidence win
ImprovesOrTies(max_val, best_confidence) == max_val >= best_confidence

\* max_val > best_confidence
Improves(max_val, best_confidence) == max_val > best_confidence

\* a threshold test that rejects a confidence equal to the threshold
BelowOrAtThreshold(best_confidence, threshold) == best_confidence <= threshold

\* best_confidence < threshold
BelowThreshold(best_confidence, threshold) == best_confidence < threshold

\* best_result = None, best_confidence = -1
NoBest == [err |-> "", best_confidence |-> -100, best_result |-> <<>>]

\* the loop over the scales, from the i-th scale on
RECURSIVE TryScales(_, _, _, _)
TryScales(frame, template, i, best) ==
    IF i > ScaleSteps THEN best
    ELSE LET r == matchTemplate(frame, template, i)
         IN  IF r.err THEN [best EXCEPT !.err = "cv2.error"]
             ELSE TryScales(frame, template, i + 1,
                     IF Improves(r.val, best.best_confidence)
                     THEN [err |-> "", best_confidence |-> r.val,
                           best_result |-> <<r.loc[1], r.loc[2], r.val>>]
                     ELSE best)

\* VideoMonitor.match_template (body and decorator) with the template file
\* as it is when called: the error raised, what was found at the
\* template's path, and the value returned
MatchTemplate(frame, file, threshold) ==
    IF InvalidFrame(frame)
    THEN [err |-> "MonitorError", template |-> "", match |-> NoMatch]
    ELSE IF file \notin Images
    THEN [err |-> "MonitorError", template |-> file, match |-> NoMatch]
    ELSE LET best == TryScales(frame, file, 1, NoBest)
         IN  IF best.err # ""
             THEN [err |-> SafeMonitorOperation(best.err), template |-> file,
                   match |-> NoMatch]
             ELSE IF BelowThreshold(best.best_confidence, threshold)
             THEN [err |-> "", template |-> file, match |-> NoMatch]
             ELSE IF best.best_result = <<>>
             THEN [err |-> "TypeError", template |-> file, match |-> NoMatch]
             ELSE [err |-> "", template |-> file,
                   match |-> [found |-> TRUE, x |-> best.best_result[1],
                              y |-> best.best_result[2],
                              confidence |-> best.best_result[3]]]

match_template(frame, template_name) ==
    LET r == MatchTemplate(frame, template_files[template_name],
                           match_threshold)
    IN  /\ last' = [NoCall EXCEPT !.op = "match_template", !.frame = frame,
                                  !.name = template_name, !.err = r.err,
                                  !.template = r.template,
                                  !.match = r.match]
        /\ UNCHANGED <<frame_buffer, screenshot_count, motion_threshold,
                       blur_threshold, disk, arg, analysed>>
        /\ UNCHANGED tmvars

\* a template image is written to its path (as the tests do before a match)
WriteTemplate(template_name, image) ==
    /\ template_files[template_name] # image
    /\ template_files' = [template_files EXCEPT ![template_name] = image]
    /\ UNCHANGED <<match_threshold, screen_monitor, templates>>

\* ScreenMonitor._load_templates: the templates whose file exists and
\* decodes, by name
LoadTemplates(files) ==
    [n \in {m \in TemplateNames : files[m] \in Images} |-> files[n]]

\* ScreenMonitor.__init__: _load_config raises when the configuration
\* cannot be read, otherwise the templates are loaded
Construct(config_ok) ==
    /\ screen_monitor = "new"
    /\ IF config_ok
       THEN /\ templates' = LoadTemplates(template_files)
            /\ screen_monitor' = "constructed"
       ELSE /\ screen_monitor' = "failed"
            /\ UNCHANGED templates
    /\ UNCHANGED <<template_files, match_threshold>>

-----------------------------------------------------------------------------
(* ScreenMonitor.monitor_regions *)

\* None: a failed capture, and a region with no entry in previous_frames
None == <<>>

\* np.mean(cv2.absdiff(a, b)), as <<numerator, denominator>>
MeanAbsDiff(a, b) == Mean([i \in 1..Len(a) |-> Abs(a[i] - b[i])])

\* the change test with >= in place of >
ChangeDetectedAtLeast(current, previous) ==
    MeanAbsDiff(current, previous)[1]
        >= ChangeThreshold * MeanAbsDiff(current, previous)[2]

\* change_detected = np.mean(diff) > 5.0
ChangeDetected(current, previous) ==
    FracGreater(MeanAbsDiff(current, previous), ChangeThreshold)

\* the store that keeps the first frame of a region for ever
StoreFirstOnly(previous, name, frame) ==
    IF previous[name] = None THEN [previous EXCEPT ![name] = frame]
    ELSE previous

\* previous_frames[region_name] = current_frame
StoreFrame(previous, name, frame) == [previous EXCEPT ![name] = frame]

region_name == Regions[region_index]

\* the for loop moves to the next region, or the tick ends in time.sleep
NextRegion ==
    IF region_index < Len(Regions)
    THEN /\ region_index' = region_index + 1
         /\ pc' = "capture"
         /\ UNCHANGED calls
    ELSE /\ pc' = "sleep"
         /\ UNCHANGED <<region_index, calls>>

\* a failed capture that abandons the rest of the tick (break)
ContinueAsBreak ==
    /\ pc' = "sleep"
    /\ UNCHANGED <<region_index, calls>>

\* if current_frame is None: continue
Continue == NextRegion

\* a loop exit that leaves the capture resource open
FinallyNoClose(reason) ==
    /\ pc' = "done"
    /\ exit_by' = reason
    /\ UNCHANGED <<sct_open, sct_closes>>

\* the except clause taken for reason, then finally: self.sct.close();
\* monitor_regions returns
Finally(reason) ==
    /\ pc' = "done"
    /\ exit_by' = reason
    /\ sct_open' = FALSE
    /\ sct_closes' = sct_closes + 1

\* current_frame = self.capture_region(region): an image, or None when the
\* grab failed; None skips the region
Capture ==
    /\ pc = "capture"
    /\ \E frame \in ScreenFrames \cup {None} :
          /\ current_frame' = frame
          /\ change' = "unset"
          /\ IF frame = None
             THEN Continue
             ELSE pc' = "compare" /\ UNCHANGED <<region_index, calls>>
    /\ UNCHANGED <<previous_frames, callback, sct_open, sct_closes, exit_by>>

\* the comparison with the stored frame of the region; cv2.absdiff raises
\* on frames of different shapes, which ends the loop in the
\* except Exception and finally clauses
Compare ==
    /\ pc = "compare"
    /\ IF previous_frames[region_name] = None
       THEN /\ pc' = "store"
            /\ UNCHANGED <<change, sct_open, sct_closes, exit_by>>
       ELSE IF Len(current_frame) # Len(previous_frames[region_name])
       THEN /\ Finally("Exception")
            /\ UNCHANGED change
       ELSE LET change_detected ==
                    ChangeDetected(current_frame, previous_frames[region_name])
            IN  /\ change' = IF change_detected THEN "yes" ELSE "no"
                /\ pc' = IF change_detected /\ callback THEN "callback"
                                                        ELSE "store"
                /\ UNCHANGED <<sct_open, sct_closes, exit_by>>
    /\ UNCHANGED <<region_index, previous_frames, current_frame, callback,
                   calls>>

\* a callback handed to another thread: the loop goes on at once
CallbackDetached ==
    /\ pc = "callback"
    /\ calls' = Append(calls, <<region_name, current_frame>>)
    /\ pc' = "store"
    /\ UNCHANGED <<region_index, previous_frames, current_frame, change,
                   callback, sct_open, sct_closes, exit_by>>

\* callback(region_name, current_frame) is entered
Callback ==
    /\ pc = "callback"
    /\ calls' = Append(calls, <<region_name, current_frame>>)
    /\ pc' = "in_callback"
    /\ UNCHANGED <<region_index, previous_frames, current_frame, change,
                   callback, sct_open, sct_closes, exit_by>>

\* a raising callback whose exception is logged inside the loop, which
\* then goes on with the region
CallbackReturnResumes ==
    /\ pc = "in_callback"
    /\ pc' = "store"
    /\ \E returns \in BOOLEAN :
          exit_by' = IF returns THEN exit_by ELSE "Exception"
    /\ UNCHANGED <<region_index, previous_frames, current_frame, change,
                   callback, calls, sct_open, sct_closes>>

\* the callback returns, or it raises, which ends the loop in the
\* except Exception and finally clauses
CallbackReturn ==
    /\ pc = "in_callback"
    /\ \E returns \in BOOLEAN :
          IF returns
          THEN pc' = "store" /\ UNCHANGED <<sct_open, sct_closes, exit_by>>
          ELSE Finally("Exception")
    /\ UNCHANGED <<region_index, previous_frames, current_frame, change,
                   callback, calls>>

\* previous_frames[region_name] = current_frame, then the next region
Store ==
    /\ pc = "store"
    /\ previous_frames' = StoreFrame(previous_frames, region_name,
                                     current_frame)
    /\ NextRegion
    /\ UNCHANGED <<current_frame, change, callback, sct_open, sct_closes,
                   exit_by>>

\* time.sleep(self.capture_interval), then the next tick
Sleep ==
    /\ pc = "sleep"
    /\ pc' = "capture"
    /\ region_index' = 1
    /\ calls' = <<>>
    /\ UNCHANGED <<previous_frames, current_frame, change, callback,
                   sct_open, sct_closes, exit_by>>

\* KeyboardInterrupt, raised wherever the loop is: except clause, then
\* finally
Interrupt ==
    /\ pc # "done"
    /\ Finally("KeyboardInterrupt")
    /\ UNCHANGED <<region_index, previous_frames, current_frame, change,
                   callback, calls>>

-----------------------------------------------------------------------------
(* error_handler: retry_on_error and handle_automation_error *)

\* isinstance(e, classes): MonitorError derives from AutomationError
IsInstance(e, classes) ==
    \E c \in classes : e = c \/ (e = "MonitorError" /\ c = "AutomationError")

\* the exception object a wrapped function raises
FuncName == "mock"
Raised(class) == [type |-> class, msg |-> <<"Error">>]
NoError == [type |-> "", msg |-> <<>>]

\* no wrapped function is being called
NoWrapper ==
    [decorator |-> "none", outcomes |-> <<>>, max_attempts |-> 0,
     allowed_exceptions |-> {}, pc |-> "returned", attempt |-> 0,
     call_count |-> 0, last_error |-> NoError, error |-> NoError]

\* a call of a function wrapped by decorator is about to start; outcomes is
\* what the function does on its successive invocations, allowed_exceptions
\* is {} for None
Wrapped(decorator, outcomes, max_attempts, allowed_exceptions) ==
    [NoWrapper EXCEPT !.decorator = decorator, !.outcomes = outcomes,
                      !.max_attempts = max_attempts,
                      !.allowed_exceptions = allowed_exceptions,
                      !.pc = "loop", !.attempt = 1]

\* a loop test that stops one attempt early
MoreAttemptsStrict(attempt, max_attempts) == attempt < max_attempts

\* while attempt <= max_attempts
MoreAttempts(attempt, max_attempts) == attempt <= max_attempts

\* allowed_exceptions and not isinstance(e, allowed_exceptions)
NotAllowed(e, allowed_exceptions) ==
    allowed_exceptions # {} /\ ~IsInstance(e, allowed_exceptions)

\* retry_on_error: one pass of the loop body: func is invoked; it returns,
\* or its exception is re-raised (not allowed), or counted
RetryAttempt ==
    /\ wrapper.decorator = "retry_on_error"
    /\ wrapper.pc = "loop"
    /\ MoreAttempts(wrapper.attempt, wrapper.max_attempts)
    /\ LET r == wrapper.outcomes[wrapper.call_count + 1]
           called == [wrapper EXCEPT !.call_count = @ + 1]
       IN  wrapper' =
             IF r = "ok"
             THEN [called EXCEPT !.pc = "returned"]
             ELSE IF NotAllowed(r, wrapper.allowed_exceptions)
             THEN [called EXCEPT !.last_error = Raised(r), !.pc = "raised",
                                 !.error = Raised(r)]
             ELSE [called EXCEPT !.last_error = Raised(r),
                                 !.attempt = @ + 1,
                                 !.pc = IF wrapper.attempt
                                           < wrapper.max_attempts
                                        THEN "sleep" ELSE "loop"]

\* time.sleep(retry_delay * attempt) is over
RetrySleep ==
    /\ wrapper.decorator = "retry_on_error"
    /\ wrapper.pc = "sleep"
    /\ wrapper' = [wrapper EXCEPT !.pc = "loop"]

\* the loop is left: raise last_error (raise None is a TypeError)
RetryExhausted ==
    /\ wrapper.decorator = "retry_on_error"
    /\ wrapper.pc = "loop"
    /\ ~MoreAttempts(wrapper.attempt, wrapper.max_attempts)
    /\ wrapper' = [wrapper EXCEPT
                      !.pc = "raised",
                      !.error = IF wrapper.last_error = NoError
                                THEN [type |-> "TypeError", msg |-> <<>>]
                                ELSE wrapper.last_error]

\* except AutomationError: the handler evaluates str(e) for its log entry,
\* but e is only bound by the later "except Exception as e" clause, so the
\* handler itself raises UnboundLocalError before it reaches "raise"
HandleAutomationError(e) ==
    [type |-> "UnboundLocalError", msg |-> <<"e">>]

\* except Exception as e: raise AutomationError(error_msg)
HandleOtherError(e) ==
    [type |-> "AutomationError",
     msg |-> <<"Unexpected error in ", FuncName, ": ">> \o e.msg]

\* handle_automation_error: the wrapper calls func once
HandleCall ==
    /\ wrapper.decorator = "handle_automation_error"
    /\ wrapper.pc = "loop"
    /\ LET r == wrapper.outcomes[1]
           called == [wrapper EXCEPT !.call_count = @ + 1]
       IN  wrapper' =
             IF r = "ok"
             THEN [called EXCEPT !.pc = "returned"]
             ELSE IF IsInstance(r, {"AutomationError"})
             THEN [called EXCEPT !.pc = "raised",
                                 !.error = HandleAutomationError(Raised(r))]
             ELSE [called EXCEPT !.pc = "raised",
                                 !.error = HandleOtherError(Raised(r))]

-----------------------------------------------------------------------------
(* LogRotationManager and MetricsCollector: a caller and the loop threads *)

\* a loop thread is about to test its while condition ("test"), is in
\* time.sleep ("sleep"), or has left its loop ("exited"); thread 0 is None
Alive(threads, t) == t # 0 /\ threads[t] # "exited"

\* the state after LogRotationManager.__init__
InitRotation ==
    rotation = [running |-> FALSE, rotation_thread |-> 0, threads |-> <<>>,
                caller |-> "idle"]

\* if not self.running
NotRunning(r) == ~r.running

\* LogRotationManager.start_rotation
start_rotation ==
    /\ rotation.caller = "idle"
    /\ IF NotRunning(rotation)
       THEN /\ Len(rotation.threads) < MaxThreads
            /\ rotation' = [rotation EXCEPT
                              !.running = TRUE,
                              !.threads = Append(@, "test"),
                              !.rotation_thread = Len(rotation.threads) + 1]
       ELSE UNCHANGED rotation
    /\ UNCHANGED <<wrapper, metrics>>

\* LogRotationManager.stop_rotation up to the call of join
stop_rotation ==
    /\ rotation.caller = "idle"
    /\ rotation' = [rotation EXCEPT
                      !.running = FALSE,
                      !.caller = IF rotation.rotation_thread # 0
                                 THEN "joining" ELSE "idle"]
    /\ UNCHANGED <<wrapper, metrics>>

\* rotation_thread.join(timeout=5.0) returns, because the thread has ended
\* or because the timeout has passed while the thread sleeps; then
\* self.rotation_thread = None
RotationJoinReturn ==
    /\ rotation.caller = "joining"
    /\ rotation.threads[rotation.rotation_thread] \in {"exited", "sleep"}
    /\ rotation' = [rotation EXCEPT !.rotation_thread = 0, !.caller = "idle"]
    /\ UNCHANGED <<wrapper, metrics>>

\* _rotation_loop of thread t: while self.running: _check_and_rotate(),
\* then time.sleep(rotation_interval); the thread ends when running is false
RotationLoop(t) ==
    /\ rotation.threads[t] = "test"
    /\ rotation' = [rotation EXCEPT
                      !.threads[t] = IF rotation.running THEN "sleep"
                                                         ELSE "exited"]
    /\ UNCHANGED <<wrapper, metrics>>

\* time.sleep(self.rotation_interval) of thread t is over
RotationWake(t) ==
    /\ rotation.threads[t] = "sleep"
    /\ rotation' = [rotation EXCEPT !.threads[t] = "test"]
    /\ UNCHANGED <<wrapper, metrics>>

\* the state after MetricsCollector.__init__; wanted records that
\* start_collection was the last call of the caller
InitMetrics ==
    metrics = [is_collecting |-> FALSE, collection_thread |-> 0,
               threads |-> <<>>, caller |-> "idle", wanted |-> FALSE]

\* MetricsCollector.start_collection
start_collection ==
    /\ metrics.caller = "idle"
    /\ IF ~Alive(metrics.threads, metrics.collection_thread)
       THEN /\ Len(metrics.threads) < MaxThreads
            /\ metrics' = [metrics EXCEPT
                             !.is_collecting = TRUE,
                             !.threads = Append(@, "test"),
                             !.collection_thread = Len(metrics.threads) + 1,
                             !.wanted = TRUE]
       ELSE metrics' = [metrics EXCEPT !.wanted = TRUE]
    /\ UNCHANGED <<wrapper, rotation>>

\* MetricsCollector.stop_collection up to the call of join
stop_collection ==
    /\ metrics.caller = "idle"
    /\ IF Alive(metrics.threads, metrics.collection_thread)
       THEN metrics' = [metrics EXCEPT !.is_collecting = FALSE,
                                       !.caller = "joining",
                                       !.wanted = FALSE]
       ELSE metrics' = [metrics EXCEPT !.wanted = FALSE]
    /\ UNCHANGED <<wrapper, rotation>>

\* collection_thread.join(timeout=5) returns, because the thread has ended
\* or because the timeout has passed while the thread sleeps
CollectionJoinReturn ==
    /\ metrics.caller = "joining"
    /\ metrics.threads[metrics.collection_thread] \in {"exited", "sleep"}
    /\ metrics' = [metrics EXCEPT !.caller = "idle"]
    /\ UNCHANGED <<wrapper, rotation>>

\* _collection_task of thread t: while self.is_collecting: collect, then
\* time.sleep (also after an error); the thread ends when is_collecting is
\* false
CollectionTask(t) ==
    /\ metrics.threads[t] = "test"
    /\ metrics' = [metrics EXCEPT
                     !.threads[t] = IF metrics.is_collecting THEN "sleep"
                                                             ELSE "exited"]
    /\ UNCHANGED <<wrapper, rotation>>

\* time.sleep of thread t is over
CollectionWake(t) ==
    /\ metrics.threads[t] = "sleep"
    /\ metrics' = [metrics EXCEPT !.threads[t] = "test"]
    /\ UNCHANGED <<wrapper, rotation>>

-----------------------------------------------------------------------------
(* Specifications *)

\* the state after VideoMonitor.__init__
InitVideoMonitor ==
    /\ frame_buffer = <<>>
    /\ screenshot_count = 0
    /\ motion_threshold \in MotionThresholds
    /\ blur_threshold \in BlurThresholds
    /\ disk = [n \in Names |-> <<>>]
    /\ last = NoCall
    /\ analysed = 0

\* every template file in place, the default threshold, and the
\* ScreenMonitor constructed from them
InitTemplates ==
    /\ template_files = [n \in TemplateNames |-> "img1"]
    /\ match_threshold = 80
    /\ screen_monitor = "constructed"
    /\ templates = LoadTemplates(template_files)

\* no decorated function is being called
InitUtils ==
    /\ wrapper = NoWrapper
    /\ InitRotation
    /\ InitMetrics

\* the state at the head of ScreenMonitor.monitor_regions
InitScreenMonitor ==
    /\ pc = "capture"
    /\ region_index = 1
    /\ previous_frames = [n \in {Regions[i] : i \in 1..Len(Regions)} |-> None]
    /\ current_frame = None
    /\ change = "unset"
    /\ callback \in BOOLEAN
    /\ calls = <<>>
    /\ sct_open = TRUE
    /\ sct_closes = 0
    /\ exit_by = ""

\* frame analysis on one VideoMonitor
Init ==
    /\ InitVideoMonitor
    /\ arg = NoneFrame
    /\ InitScreenMonitor
    /\ InitUtils
    /\ callback = TRUE
    /\ InitTemplates

Next ==
    \/ \E frame \in FrameArgs :
          analyze_frame(frame) /\ UNCHANGED <<smvars, tmvars, utvars>>
    \/ \E frame \in FrameArgs :
          verify_video_playing(frame) /\ UNCHANGED <<smvars, tmvars, utvars>>

Spec == Init /\ [][Next]_vars

\* the screenshot archiver of one VideoMonitor
NextArchive ==
    \E frame \in FrameArgs, name \in Names, write_ok \in BOOLEAN :
        save_frame(frame, name, write_ok) /\ UNCHANGED <<smvars, tmvars, utvars>>

SpecArchive == Init /\ [][NextArchive]_vars

\* the progress-bar detector applied to one frame
InitProgress ==
    /\ InitVideoMonitor
    /\ motion_threshold = 100
    /\ blur_threshold = 100
    /\ arg \in ProgressArgs
    /\ InitScreenMonitor
    /\ InitUtils
    /\ callback = TRUE
    /\ InitTemplates

NextProgress == detect_progress_bar(arg) /\ UNCHANGED <<smvars, tmvars, utvars>>

SpecProgress == InitProgress /\ [][NextProgress]_vars

\* the polling loop of one ScreenMonitor
InitRegions ==
    /\ InitVideoMonitor
    /\ motion_threshold = 100
    /\ blur_threshold = 100
    /\ arg = NoneFrame
    /\ InitScreenMonitor
    /\ InitUtils
    /\ InitTemplates

NextRegions ==
    \/ Capture /\ UNCHANGED <<vmvars, tmvars, utvars>>
    \/ Compare /\ UNCHANGED <<vmvars, tmvars, utvars>>
    \/ Callback /\ UNCHANGED <<vmvars, tmvars, utvars>>
    \/ CallbackReturn /\ UNCHANGED <<vmvars, tmvars, utvars>>
    \/ Store /\ UNCHANGED <<vmvars, tmvars, utvars>>
    \/ Sleep /\ UNCHANGED <<vmvars, tmvars, utvars>>
    \/ Interrupt /\ UNCHANGED <<vmvars, tmvars, utvars>>

SpecRegions == InitRegions /\ [][NextRegions]_vars

\* the template matcher applied to one frame, one threshold and one state
\* of the template files
InitMatch ==
    /\ InitVideoMonitor
    /\ motion_threshold = 100
    /\ blur_threshold = 100
    /\ arg \in MatchArgs
    /\ InitScreenMonitor
    /\ InitUtils
    /\ callback = TRUE
    /\ \E file \in FileStates :
          template_files = [n \in TemplateNames |-> file]
    /\ match_threshold \in MatchThresholds
    /\ screen_monitor = "constructed"
    /\ templates = LoadTemplates(template_files)

NextMatch ==
    \E template_name \in TemplateNames :
        match_template(arg, template_name) /\ UNCHANGED <<smvars, utvars>>

SpecMatch == InitMatch /\ [][NextMatch]_vars

\* the frames given to the operations of one session of a VideoMonitor:
\* invalid ones, and for each operation a few valid ones
InvalidArgs == {NoneFrame, NotArray}
SessionFrames ==
    InvalidArgs \cup {[kind |-> "ndarray", px |-> p] :
                         p \in {<<Black>>, <<White>>, <<Black, White>>}}
SessionProgressFrames ==
    InvalidArgs \cup {f \in ProgressArgs :
                         /\ f.kind = "ndarray"
                         /\ f.white = <<Contour(5, 5)>>
                         /\ f.gray = <<Contour(3, RoiHeight(FrameHeight))>>}
SessionMatchFrames == InvalidArgs \cup ProbeFrames

\* one session of a VideoMonitor: every operation, in any order
InitSession ==
    /\ InitVideoMonitor
    /\ motion_threshold = 100
    /\ blur_threshold = 100
    /\ arg = NoneFrame
    /\ InitScreenMonitor
    /\ InitUtils
    /\ callback = TRUE
    /\ InitTemplates

NextSession ==
    \/ \E frame \in SessionFrames :
          analyze_frame(frame) /\ UNCHANGED <<smvars, tmvars, utvars>>
    \/ \E frame \in SessionFrames :
          verify_video_playing(frame) /\ UNCHANGED <<smvars, tmvars, utvars>>
    \/ \E frame \in SessionProgressFrames :
          detect_progress_bar(frame) /\ UNCHANGED <<smvars, tmvars, utvars>>
    \/ \E frame \in SessionMatchFrames, template_name \in TemplateNames :
          match_template(frame, template_name) /\ UNCHANGED <<smvars, utvars>>
    \/ \E frame \in SessionFrames, write_ok \in BOOLEAN :
          save_frame(frame, "a", write_ok) /\ UNCHANGED <<smvars, tmvars, utvars>>

SpecSession == InitSession /\ [][NextSession]_vars

\* one call of a function wrapped by retry_on_error or by
\* handle_automation_error
InitWrappers ==
    /\ InitVideoMonitor
    /\ motion_threshold = 100
    /\ blur_threshold = 100
    /\ arg = NoneFrame
    /\ InitScreenMonitor
    /\ callback = TRUE
    /\ InitTemplates
    /\ InitRotation
    /\ InitMetrics
    /\ \/ \E outcomes \in SeqsOfLen(Outcomes, MaxAttempts),
             max_attempts \in 1..MaxAttempts,
             allowed_exceptions \in {{}, {"ValueError"},
                                     {"ValueError", "AutomationError"}} :
             wrapper = Wrapped("retry_on_error", outcomes, max_attempts,
                               allowed_exceptions)
       \/ \E outcome \in Outcomes :
             wrapper = Wrapped("handle_automation_error", <<outcome>>, 1, {})

NextWrappers ==
    \/ RetryAttempt /\ UNCHANGED <<vmvars, smvars, tmvars, rotation, metrics>>
    \/ RetrySleep /\ UNCHANGED <<vmvars, smvars, tmvars, rotation, metrics>>
    \/ RetryExhausted /\ UNCHANGED <<vmvars, smvars, tmvars, rotation, metrics>>
    \/ HandleCall /\ UNCHANGED <<vmvars, smvars, tmvars, rotation, metrics>>

SpecWrappers == InitWrappers /\ [][NextWrappers]_vars

\* a LogRotationManager and a MetricsCollector of one process, started and
\* stopped by their caller while their loop threads run
InitThreads ==
    /\ InitVideoMonitor
    /\ motion_threshold = 100
    /\ blur_threshold = 100
    /\ arg = NoneFrame
    /\ InitScreenMonitor
    /\ InitUtils
    /\ callback = TRUE
    /\ InitTemplates

NextThreads ==
    \/ start_rotation /\ UNCHANGED <<vmvars, smvars, tmvars>>
    \/ stop_rotation /\ UNCHANGED <<vmvars, smvars, tmvars>>
    \/ RotationJoinReturn /\ UNCHANGED <<vmvars, smvars, tmvars>>
    \/ \E t \in 1..Len(rotation.threads) :
          RotationLoop(t) /\ UNCHANGED <<vmvars, smvars, tmvars>>
    \/ \E t \in 1..Len(rotation.threads) :
          RotationWake(t) /\ UNCHANGED <<vmvars, smvars, tmvars>>
    \/ start_collection /\ UNCHANGED <<vmvars, smvars, tmvars>>
    \/ stop_collection /\ UNCHANGED <<vmvars, smvars, tmvars>>
    \/ CollectionJoinReturn /\ UNCHANGED <<vmvars, smvars, tmvars>>
    \/ \E t \in 1..Len(metrics.threads) :
          CollectionTask(t) /\ UNCHANGED <<vmvars, smvars, tmvars>>
    \/ \E t \in 1..Len(metrics.threads) :
          CollectionWake(t) /\ UNCHANGED <<vmvars, smvars, tmvars>>

SpecThreads == InitThreads /\ [][NextThreads]_vars

\* the monitors and their template files: a ScreenMonitor is constructed,
\* a VideoMonitor matches, template files are written
InitFiles ==
    /\ InitVideoMonitor
    /\ motion_threshold = 100
    /\ blur_threshold = 100
    /\ arg = NoneFrame
    /\ InitScreenMonitor
    /\ InitUtils
    /\ callback = TRUE
    /\ template_files \in [TemplateNames -> FileStates]
    /\ match_threshold \in MatchThresholds
    /\ screen_monitor = "new"
    /\ templates = <<>>

NextFiles ==
    \/ \E config_ok \in BOOLEAN :
          Construct(config_ok) /\ UNCHANGED <<vmvars, smvars, utvars>>
    \/ \E frame \in ProbeFrames, template_name \in TemplateNames :
          match_template(frame, template_name) /\ UNCHANGED <<smvars, utvars>>
    \/ \E template_name \in TemplateNames, image \in Images :
          WriteTemplate(template_name, image) /\ UNCHANGED <<vmvars, smvars, utvars>>

SpecFiles == InitFiles /\ [][NextFiles]_vars

-----------------------------------------------------------------------------
(* Claims on frame analysis (specification Spec) *)

\* a step in which analyze_frame returned metrics for a valid frame
AnalyzeReturned == last'.op = "analyze_frame" /\ last'.err = ""

\* a step in which analyze_frame ran on a valid frame, called directly or
\* by verify_video_playing
FrameAnalysed ==
    /\ last'.op \in {"analyze_frame", "verify_video_playing"}
    /\ ~InvalidFrame(last'.frame)

\* C1: motion_detected of analyze_frame is true exactly when the per-pixel
\* absolute-difference sum between the frame and the frame analysed by the
\* previous call (the newest entry of the buffer before the call) exceeds
\* motion_threshold.
C1_MotionAgainstPreviousFrame ==
    [][(/\ AnalyzeReturned
        /\ frame_buffer # <<>>
        /\ Len(frame_buffer[Len(frame_buffer)]) = Len(last'.frame.px))
       => (last'.motion <=>
             AbsDiffSum(cvtColor(last'.frame.px),
                        frame_buffer[Len(frame_buffer)]) > motion_threshold)]_vars

\* C4: the frame buffer never holds more than buffer_size frames, and a call
\* of analyze_frame on a full buffer drops the oldest entry and appends the
\* grayscale copy of the new frame.
C4_BufferBounded ==
    /\ [](Len(frame_buffer) <= buffer_size)
    /\ [][(FrameAnalysed /\ Len(frame_buffer) >= buffer_size)
           => frame_buffer' = Append(Tail(frame_buffer),
                                     cvtColor(last'.frame.px))]_vars

\* C4 witness: analyze_frame has returned after more frames were analysed
\* than the buffer holds, so an entry was evicted.
C4_Witness ==
    /\ last.op = "analyze_frame"
    /\ last.err = ""
    /\ analysed > buffer_size
    /\ Len(frame_buffer) = buffer_size

\* C7: analyze_frame on a frame whose shape differs from the newest buffered
\* frame fails: it returns no metrics and the frame is not put in the buffer.
C7_ShapeMismatchRaises ==
    [][(/\ last'.op = "analyze_frame"
        /\ ~InvalidFrame(last'.frame)
        /\ frame_buffer # <<>>
        /\ Len(frame_buffer[Len(frame_buffer)]) # Len(last'.frame.px))
       => (last'.err # "" /\ frame_buffer' = frame_buffer)]_vars

\* C8: verify_video_playing returns true exactly when the analysis of the
\* frame reports motion and the blur score of the frame is strictly greater
\* than blur_threshold.
C8_PlayingIffMotionAndSharp ==
    (last.op = "verify_video_playing" /\ last.err = "")
    => (last.playing <=>
          (last.motion
             /\ CalculateBlur(last.frame.px)[1]
                  > blur_threshold * CalculateBlur(last.frame.px)[2]))

\* C8 witness: a sharp frame for which the analysis reported no motion was
\* not reported as playing.
C8_Witness ==
    /\ last.op = "verify_video_playing"
    /\ last.err = ""
    /\ ~last.motion
    /\ FracGreater(last.blur, blur_threshold)
    /\ ~last.playing

\* C24: the first frame analysed by a freshly constructed VideoMonitor
\* reports no motion, whatever the frame and whatever motion_threshold.
C24_FirstFrameReportsNoMotion ==
    [][(FrameAnalysed /\ frame_buffer = <<>> /\ analysed = 0
          /\ last'.err = "")
       => ~last'.motion]_vars

-----------------------------------------------------------------------------
(* Claims on the screenshot archiver (specification SpecArchive) *)

\* C2: after any sequence of save_frame calls screenshot_count is at most
\* max_per_session.
C2_CountWithinQuota == screenshot_count <= max_screenshots

\* C2 witness: a save_frame call returned a path and filled the quota.
C2_Witness ==
    /\ last.op = "save_frame"
    /\ last.path # NoPath
    /\ screenshot_count = max_screenshots

\* C3: for a valid frame save_frame returns None exactly when
\* screenshot_count equals max_per_session at the time of the call, and a
\* call that returns a path raises the count by one (so the first
\* max_per_session calls return paths and every later call returns None).
C3_QuotaExceededExactlyAtMax ==
    [][(last'.op = "save_frame" /\ ~InvalidFrame(last'.frame))
       => /\ last'.err = ""
          /\ last'.path = NoPath <=> screenshot_count = max_screenshots
          /\ last'.path # NoPath =>
                /\ last'.path = PathOf(last'.name)
                /\ screenshot_count' = screenshot_count + 1]_vars

\* C3 witness: a save_frame call with a valid frame was refused at full quota.
C3_Witness ==
    /\ last.op = "save_frame"
    /\ ~InvalidFrame(last.frame)
    /\ last.err = ""
    /\ last.path = NoPath
    /\ screenshot_count = max_screenshots

\* C6: save_frame returns a path and raises screenshot_count only if the
\* frame is stored under that path.
C6_PathOnlyIfPersisted ==
    [][(/\ last'.op = "save_frame"
        /\ last'.path # NoPath \/ screenshot_count' # screenshot_count)
       => disk'[last'.name] = last'.frame.px]_vars

\* C23: a frame that save_frame stored under the path it returned is read
\* back from that path unchanged: right after the call, and after every
\* later call of save_frame.
C23_SavedFrameReadsBack ==
    /\ []((last.op = "save_frame" /\ last.path # NoPath)
            => disk[last.name] = last.frame.px)
    /\ [][(/\ last.op = "save_frame"
           /\ last.path # NoPath
           /\ disk[last.name] = last.frame.px)
          => disk'[last.name] = last.frame.px]_vars

-----------------------------------------------------------------------------
(* Claims on the progress-bar detector (specification SpecProgress) *)

\* C5: every value detect_progress_bar returns is None or a fraction within
\* [0, 1].
C5_ProgressWithinUnitInterval ==
    (last.op = "detect_progress_bar" /\ last.err = "" /\ last.progress.found)
    => (0 <= last.progress.num /\ last.progress.num <= last.progress.den)

-----------------------------------------------------------------------------
(* Claims on the polling loop (specification SpecRegions) *)

\* the regions the callback has been invoked for in the current tick
Called == {calls[i][1] : i \in 1..Len(calls)}

\* a step in which the callback is invoked
CallbackInvoked == Len(calls') = Len(calls) + 1

\* C9: in each tick the callback is invoked for a region exactly when a
\* frame was captured for it, a stored frame exists for it and their mean
\* absolute difference exceeds the change threshold; it is invoked with the
\* region's name and the captured frame, at most once per region per tick.
C9_CallbackExactlyOnChange ==
    /\ [][CallbackInvoked =>
            /\ calls'[Len(calls')] = <<region_name, current_frame>>
            /\ current_frame # None
            /\ previous_frames[region_name] # None
            /\ MeanAbsDiff(current_frame, previous_frames[region_name])[1]
                 > 5 * MeanAbsDiff(current_frame,
                                   previous_frames[region_name])[2]
            /\ region_name \notin Called]_vars
    /\ [][(pc = "store" /\ pc' # "done" /\ callback) =>
            (region_name \in Called <=>
               /\ previous_frames[region_name] # None
               /\ MeanAbsDiff(current_frame, previous_frames[region_name])[1]
                    > 5 * MeanAbsDiff(current_frame,
                                      previous_frames[region_name])[2])]_vars

\* C9 witness: the callback has run for a region whose frame changed.
C9_Witness ==
    /\ pc = "store"
    /\ change = "yes"
    /\ region_name \in Called

\* C10: the processing of a captured region ends with its stored frame
\* replaced by the captured frame, whether or not the change threshold was
\* exceeded and whether or not a callback was supplied or invoked; the
\* stored frame then stays as it is until the region is processed again.
C10_StoredFrameAlwaysReplaced ==
    /\ [][(pc \in {"compare", "callback", "in_callback", "store"}
            /\ pc' \in {"capture", "sleep"})
           => previous_frames'[region_name] = current_frame]_vars
    /\ [][(pc = "compare" /\ pc' # "done") => pc' \in {"callback", "store"}]_vars
    /\ [][\A n \in DOMAIN previous_frames :
            previous_frames'[n] # previous_frames[n]
            => (pc = "store" /\ n = region_name)]_vars

\* C10 witness: the frame captured for a region that did not exceed the
\* threshold has been stored for it, with no callback invoked in the tick.
C10_Witness ==
    /\ pc = "sleep"
    /\ change = "no"
    /\ calls = <<>>
    /\ current_frame = <<0, 10>>
    /\ previous_frames[region_name] = <<0, 10>>

\* C11: a failed capture skips its region for the tick: no comparison, no
\* callback, the stored frames unchanged; the loop goes on with the next
\* region of the tick, or with the sleep that leads to the next tick.
C11_FailedCaptureSkipsRegion ==
    /\ [][(pc = "capture" /\ pc' # "done" /\ current_frame' = None)
           => /\ previous_frames' = previous_frames
              /\ calls' = calls
              /\ change' = "unset"
              /\ IF region_index < Len(Regions)
                 THEN pc' = "capture" /\ region_index' = region_index + 1
                 ELSE pc' = "sleep"]_vars
    /\ [][(pc = "sleep" /\ pc' # "done")
           => (pc' = "capture" /\ region_index' = 1)]_vars

\* C11 witness: the capture of the first region failed in a tick after the
\* one that stored a frame for it; the second region is about to be captured.
C11_Witness ==
    /\ pc = "capture"
    /\ region_index = 2
    /\ current_frame = None
    /\ previous_frames[Regions[1]] # None
    /\ calls = <<>>

\* C12: a stop request ends the loop only at a tick boundary (during the
\* sleep, or before the first capture of a tick), never inside a tick.
C12_StopOnlyAtTickBoundary ==
    [][(pc' = "done" /\ pc # "done" /\ exit_by' = "KeyboardInterrupt")
       => (pc = "sleep" \/ (pc = "capture" /\ region_index = 1))]_vars

\* C13: captures, comparisons and callbacks run one after the other: a tick
\* ends only when its last region has been stored or skipped, the next tick
\* starts only from the sleep, a callback that was entered must return
\* before the loop does anything else, and while it runs the frame it was
\* given is the newest frame captured for its region.
C13_TickFullyEvaluatedInOrder ==
    /\ [](pc = "in_callback" =>
             calls[Len(calls)] = <<region_name, current_frame>>)
    /\ [][CallbackInvoked => pc' = "in_callback"]_vars
    /\ [][(pc = "in_callback" /\ pc' # "done")
           => /\ pc' = "store"
              /\ UNCHANGED <<region_index, current_frame, calls>>]_vars
    /\ [][current_frame' # current_frame => pc = "capture"]_vars
    /\ [][(pc # "sleep" /\ pc' = "sleep")
           => (region_index = Len(Regions) /\ pc \in {"capture", "store"})]_vars
    /\ [][region_index' # region_index
           => \/ pc = "sleep" /\ region_index' = 1
              \/ /\ pc \in {"capture", "store"}
                 /\ region_index' = region_index + 1]_vars

\* C13 witness: the callback is running for the second region of a tick in
\* which it has already run and returned for the first.
C13_Witness ==
    /\ pc = "in_callback"
    /\ region_index = 2
    /\ Len(calls) = 2

\* C14: when monitor_regions has returned, after an interrupt or after an
\* error in the loop, the capture resource has been closed exactly once; it
\* is open while the loop runs, and no step follows the return.
C14_CaptureReleasedOnce ==
    /\ [](pc = "done" => (~sct_open /\ sct_closes = 1
                            /\ exit_by \in {"KeyboardInterrupt", "Exception"}))
    /\ [](pc # "done" => (sct_open /\ sct_closes = 0))
    /\ [][pc # "done"]_vars

\* C14 witness: the loop has ended because the callback raised.
C14_Witness ==
    /\ pc = "done"
    /\ exit_by = "Exception"
    /\ ~sct_open

\* C30: an exception raised in the loop by the callback or by the frame
\* comparison ends monitor_regions: the loop is left at once from the
\* comparison or the callback, the stored frames (the failing region's
\* included) stay as they are, no further region is processed, no callback
\* is invoked, the capture resource is closed, and nothing runs afterwards.
C30_LoopErrorEndsPolling ==
    /\ [][exit_by' = "Exception"
           => /\ pc \in {"compare", "in_callback"}
              /\ pc' = "done"
              /\ UNCHANGED <<previous_frames, region_index, current_frame,
                             calls>>]_vars
    /\ [](exit_by = "Exception" => (pc = "done" /\ ~sct_open))
    /\ [][exit_by = ""]_vars

\* C30 witness: the callback raised for the first region of a tick; the
\* frame captured for it was not stored and the second region was not
\* reached.
C30_Witness ==
    /\ pc = "done"
    /\ exit_by = "Exception"
    /\ region_index = 1
    /\ calls = <<<<Regions[1], current_frame>>>>
    /\ previous_frames[Regions[1]] # current_frame

\* C20: detect_progress_bar returns "not found" (None), without raising,
\* whenever the frame has no track contour, or the track contour of greatest
\* area is narrower than min_width_percent of the frame width, or is lower
\* than min_height_pixels -- whatever fill contours the frame has.
C20_UndersizedTrackNotFound ==
    (/\ last.op = "detect_progress_bar"
     /\ last.frame.kind = "ndarray"
     /\ \/ last.frame.white = <<>>
        \/ 10 * MaxByArea(last.frame.white).w
               < last.frame.width * MinWidthTenths
        \/ MaxByArea(last.frame.white).h < MinHeightPixels)
    => (last.err = "" /\ ~last.progress.found)

\* a track that is high enough but too narrow, in a frame with a fill contour
C20_Witness ==
    /\ last.op = "detect_progress_bar"
    /\ last.frame.kind = "ndarray"
    /\ last.frame.white # <<>>
    /\ last.frame.gray # <<>>
    /\ 10 * MaxByArea(last.frame.white).w < last.frame.width * MinWidthTenths
    /\ MaxByArea(last.frame.white).h >= MinHeightPixels
    /\ ~last.progress.found

-----------------------------------------------------------------------------
(* Claims on the template matcher (specification SpecMatch) *)

\* match_template returned (with a result or with None)
MatchReturned == last.op = "match_template" /\ last.err = ""

\* the per-scale results of the call for the template image it read
Evaluated == last.frame.corr[last.template]

\* the best confidence over all evaluated scales
BestConfidence ==
    CHOOSE v \in {Evaluated[i].val : i \in 1..ScaleSteps} :
        \A i \in 1..ScaleSteps : Evaluated[i].val <= v

\* the first scale, in ascending order, that achieves the best confidence
FirstBestScale ==
    CHOOSE i \in 1..ScaleSteps :
        /\ Evaluated[i].val = BestConfidence
        /\ \A j \in 1..(i - 1) : Evaluated[j].val # BestConfidence

\* C15: when match_template returns, it returns None exactly when the best
\* confidence over all scales is below the configured threshold; otherwise
\* (a best confidence equal to the threshold included) it returns that best
\* confidence and the location of a scale that achieved it.
C15_NotFoundIffBelowThreshold ==
    MatchReturned =>
        /\ ~last.match.found <=> BestConfidence < match_threshold
        /\ last.match.found =>
              /\ last.match.confidence = BestConfidence
              /\ \E i \in 1..ScaleSteps :
                    /\ Evaluated[i].val = BestConfidence
                    /\ Evaluated[i].loc = <<last.match.x, last.match.y>>

\* a best confidence equal to the threshold is returned as a match
C15_Witness ==
    /\ MatchReturned
    /\ last.match.found
    /\ BestConfidence = match_threshold
    /\ last.match.confidence = match_threshold

\* C18: every match result match_template returns carries a confidence
\* within [0, 1] (0..100 hundredths), whatever the per-scale scores and
\* whatever the configured threshold.
C18_ConfidenceWithinUnitInterval ==
    (MatchReturned /\ last.match.found) =>
        (0 <= last.match.confidence /\ last.match.confidence <= 100)

\* C19: when several scales achieve the same maximum confidence, the result
\* returned is that of the first of them in ascending scale order.
C19_FirstBestScaleWins ==
    (MatchReturned /\ last.match.found) =>
        /\ <<last.match.x, last.match.y>> = Evaluated[FirstBestScale].loc
        /\ last.match.confidence = Evaluated[FirstBestScale].val

\* two scales tie at the maximum confidence with different locations, and
\* the location of the earlier scale is returned
C19_Witness ==
    /\ MatchReturned
    /\ last.match.found
    /\ \E i, j \in 1..ScaleSteps :
          /\ i < j
          /\ Evaluated[i].val = BestConfidence
          /\ Evaluated[j].val = BestConfidence
          /\ Evaluated[i].loc # Evaluated[j].loc
          /\ FirstBestScale = i
          /\ <<last.match.x, last.match.y>> = Evaluated[i].loc

-----------------------------------------------------------------------------
(* Claims on the template files (specification SpecFiles) *)

\* C16: the template image of a name is loaded from disk at most once per
\* monitor: once a match has loaded the image, a later match for the same
\* name uses that same image, whatever has happened to the file since.
C16_TemplateLoadedOnce ==
    [][(/\ last.op = "match_template"
        /\ last.template \in Images
        /\ last'.op = "match_template"
        /\ last'.name = last.name
        /\ last'.frame.kind = "ndarray")
       => last'.template = last.template]_vars

\* C17: constructing a monitor whose configuration references a template
\* file that does not exist fails at construction time.
C17_MissingTemplateFailsConstruction ==
    [][(/\ screen_monitor = "new"
        /\ screen_monitor' # "new"
        /\ \E n \in TemplateNames : template_files[n] = "missing")
       => screen_monitor' = "failed"]_vars

-----------------------------------------------------------------------------
(* Claims on one session of a VideoMonitor (specification SpecSession) *)

SessionOps ==
    {"analyze_frame", "verify_video_playing", "detect_progress_bar",
     "save_frame", "match_template"}

\* the last n entries of a sequence
LastN(seq, n) ==
    IF Len(seq) <= n THEN seq ELSE SubSeq(seq, Len(seq) - n + 1, Len(seq))

\* C21: a call of analyze_frame, verify_video_playing, detect_progress_bar,
\* save_frame or match_template with a frame that is None or no image array
\* raises MonitorError and leaves the frame buffer and screenshot_count
\* as they were.
C21_InvalidFrameRaises ==
    [][(last'.op \in SessionOps /\ last'.frame.kind # "ndarray")
       => /\ last'.err = "MonitorError"
          /\ UNCHANGED <<frame_buffer, screenshot_count>>]_vars

\* C21 witness: in a session that has buffered a frame and saved a
\* screenshot, match_template was called with an object that is no array.
C21_Witness ==
    /\ last.op = "match_template"
    /\ last.frame.kind = "object"
    /\ last.err = "MonitorError"
    /\ frame_buffer # <<>>
    /\ screenshot_count > 0

\* C22: in a session screenshot_count never decreases; it goes up by exactly
\* one in a save_frame call that returns a path and is left unchanged by
\* every other call.
C22_CountChangedOnlyBySave ==
    [][/\ screenshot_count' >= screenshot_count
       /\ IF last'.op = "save_frame" /\ last'.path # NoPath
          THEN screenshot_count' = screenshot_count + 1
          ELSE screenshot_count' = screenshot_count]_vars

\* C22 witness: after a screenshot was saved, another operation has run and
\* the count is still one.
C22_Witness ==
    /\ last.op = "detect_progress_bar"
    /\ last.err = ""
    /\ screenshot_count = 1
    /\ disk["a"] # <<>>

\* C27: the frame buffer holds the grayscale copies of the most recent
\* min(k, buffer_size) valid frames given to analyze_frame or
\* verify_video_playing, in arrival order: it starts empty, each such call
\* appends the copy of its frame and keeps the newest buffer_size entries,
\* and every other call leaves the buffer as it is.
C27_BufferHoldsMostRecentFrames ==
    /\ [](Len(frame_buffer)
            = IF analysed < buffer_size THEN analysed ELSE buffer_size)
    /\ [][IF /\ last'.op \in {"analyze_frame", "verify_video_playing"}
             /\ last'.frame.kind = "ndarray"
          THEN frame_buffer'
                 = LastN(Append(frame_buffer, cvtColor(last'.frame.px)),
                         buffer_size)
          ELSE frame_buffer' = frame_buffer]_vars

\* C27 witness: more frames than the buffer holds were analysed, the newest
\* by verify_video_playing; the buffer is full and its oldest and newest
\* entries differ.
C27_Witness ==
    /\ last.op = "verify_video_playing"
    /\ analysed > buffer_size
    /\ Len(frame_buffer) = buffer_size
    /\ frame_buffer[1] # frame_buffer[Len(frame_buffer)]
    /\ frame_buffer[Len(frame_buffer)] = cvtColor(last.frame.px)

-----------------------------------------------------------------------------
(* Claims on the decorators (specification SpecWrappers) *)

\* an exception retry_on_error retries: any when allowed_exceptions is not
\* given, otherwise an instance of one of its classes
Retryable(e) ==
    wrapper.allowed_exceptions = {}
        \/ IsInstance(e, wrapper.allowed_exceptions)

\* C25: a function wrapped with retry_on_error(max_attempts = n) is invoked
\* at most n times per call, and only again after it raised a retryable
\* exception; the wrapper returns right after the first invocation that
\* succeeds; it raises the exception of the last invocation, after exactly
\* n invocations when that exception is retryable, and right after the
\* invocation that raised it when it is not.
C25_RetryInvokesAtMostN ==
    wrapper.decorator = "retry_on_error" =>
        /\ wrapper.call_count <= wrapper.max_attempts
        /\ \A i \in 1..(wrapper.call_count - 1) :
              /\ wrapper.outcomes[i] # "ok"
              /\ Retryable(wrapper.outcomes[i])
        /\ wrapper.pc = "returned" =>
              /\ wrapper.call_count >= 1
              /\ wrapper.outcomes[wrapper.call_count] = "ok"
        /\ wrapper.pc = "raised" =>
              /\ wrapper.call_count >= 1
              /\ wrapper.outcomes[wrapper.call_count] # "ok"
              /\ wrapper.error = Raised(wrapper.outcomes[wrapper.call_count])
              /\ Retryable(wrapper.outcomes[wrapper.call_count])
                    => wrapper.call_count = wrapper.max_attempts
        /\ (wrapper.pc \in {"loop", "sleep"} /\ wrapper.call_count >= 1) =>
              /\ wrapper.outcomes[wrapper.call_count] # "ok"
              /\ Retryable(wrapper.outcomes[wrapper.call_count])

\* C25 witness: with max_attempts = 3 and allowed_exceptions = (ValueError,)
\* the function raised ValueError three times and the wrapper re-raised it.
C25_Witness ==
    /\ wrapper.decorator = "retry_on_error"
    /\ wrapper.pc = "raised"
    /\ wrapper.max_attempts = 3
    /\ wrapper.call_count = 3
    /\ wrapper.allowed_exceptions = {"ValueError"}
    /\ wrapper.error = Raised("ValueError")

\* C26: a function wrapped with handle_automation_error is invoked exactly
\* once per call; when it raises AutomationError the wrapper raises an
\* AutomationError with the same message, and when it raises any other
\* exception the wrapper raises an AutomationError whose message starts with
\* "Unexpected error in <function name>".
C26_AutomationErrorReraised ==
    (wrapper.decorator = "handle_automation_error"
       /\ wrapper.pc \in {"returned", "raised"}) =>
        /\ wrapper.call_count = 1
        /\ wrapper.pc = "raised" <=> wrapper.outcomes[1] # "ok"
        /\ IsInstance(wrapper.outcomes[1], {"AutomationError"}) =>
              /\ IsInstance(wrapper.error.type, {"AutomationError"})
              /\ wrapper.error.msg = Raised(wrapper.outcomes[1]).msg
        /\ (wrapper.outcomes[1] # "ok"
              /\ ~IsInstance(wrapper.outcomes[1], {"AutomationError"})) =>
              /\ wrapper.error.type = "AutomationError"
              /\ SubSeq(wrapper.error.msg, 1, 2)
                    = <<"Unexpected error in ", FuncName>>

-----------------------------------------------------------------------------
(* Claims on the background loops (specification SpecThreads) *)

\* C28: at most one rotation loop is active at a time: start_rotation
\* creates a thread only when the manager is not running, and a rotation
\* check is only ever performed by the thread the manager currently holds,
\* never by a loop that was started before the last stop_rotation.
C28_OneRotationLoop ==
    /\ [][Len(rotation'.threads) > Len(rotation.threads)
            => ~rotation.running]_vars
    /\ [][\A t \in 1..Len(rotation.threads) :
            (rotation.threads[t] = "test" /\ rotation'.threads[t] = "sleep")
            => t = rotation.rotation_thread]_vars

\* C29: whenever start_collection has returned and stop_collection has not
\* been called since, is_collecting is true and the collection thread is
\* alive.
C29_CollectionRunsWhileStarted ==
    (metrics.wanted /\ metrics.caller = "idle")
    => (metrics.is_collecting
          /\ Alive(metrics.threads, metrics.collection_thread))

====
